---- MODULE Spec2Model ----
(***************************************************************************)
(* A model of schematics/models.py: the model metaclass, BaseModel (the    *)
(* constructor, validate and the dictionary interface), swap_field and the *)
(* class-level validation helpers.                                         *)
(*                                                                         *)
(* Python values are tokens: None is "None", the empty string is "", " "   *)
(* is a string of blanks, "A" is a non-empty string and "7" an integer.    *)
(* A dictionary is a function whose DOMAIN is its key set; its iteration   *)
(* order is the order of its keys in DictOrder.  Classes, field objects    *)
(* and instances are numbered in order of creation; class 1 is Model.      *)
(***************************************************************************)
EXTENDS Naturals, Sequences, FiniteSets, TLC

VARIABLES klasses, flds, declared, defined, insts, nsets, values, ret

vars == <<klasses, flds, declared, defined, insts, nsets, values, ret>>

-----------------------------------------------------------------------------
(* Bounds *)

MaxClasses == 3

MaxModelClasses == 2

MaxInstances == 1

MaxSets == 1

MaxEqClasses == 1

MaxEqInstances == 2

MaxValidateClasses == 1

MaxValidateInstances == 1

MaxHelperClasses == 1

MaxKeys == 2

-----------------------------------------------------------------------------
(* Dictionaries *)

None == "None"

DictOrder == <<"id", "_id", "name", "age", "n", "foo", "Options", "_superclasses", "None">>

EmptyDict == [k \in {} |-> None]

Put(d, k, v) == [x \in (DOMAIN d) \cup {k} |-> IF x = k THEN v ELSE d[x]]

Del(d, k) == [x \in (DOMAIN d) \ {k} |-> d[x]]

Update(d, e) == [x \in (DOMAIN d) \cup (DOMAIN e) |-> IF x \in DOMAIN e THEN e[x] ELSE d[x]]

Get(d, k) == IF k \in DOMAIN d THEN d[k] ELSE None

Keys(d) == SelectSeq(DictOrder, LAMBDA k : k \in DOMAIN d)

-----------------------------------------------------------------------------
(* Field declarations (schematics.types) *)

NewField(kind, required, default, minimized, uniq) ==
    [kind |-> kind, required |-> required, default |-> default,
     minimized_field_name |-> minimized, uniq_field |-> uniq,
     field_name |-> None, owner_model |-> 0]

TypeValid(kind, v) ==
    \/ kind = "string" /\ v \in {"", " ", "A"}
    \/ kind = "int" /\ v = "7"

IsStr(v) == v \in {"", " ", "A"}

Strip(v) == IF v = " " THEN "" ELSE v

-----------------------------------------------------------------------------
(* Class bodies: what a class statement passes to the metaclass as attrs *)

FieldAttr(kind, required, default, minimized, uniq) ==
    [t |-> "field", kind |-> kind, required |-> required, default |-> default,
     minimized |-> minimized, uniq |-> uniq, names |-> {}]

PlainAttr ==
    [t |-> "plain", kind |-> None, required |-> FALSE, default |-> None,
     minimized |-> None, uniq |-> None, names |-> {}]

OptionsAttr(names) ==
    [t |-> "options", kind |-> None, required |-> FALSE, default |-> None,
     minimized |-> None, uniq |-> None, names |-> names]

Bodies ==
    { EmptyDict,
      [x \in {"name", "age", "Options"} |->
          CASE x = "name" -> FieldAttr("string", TRUE, None, None, None)
            [] x = "age" -> FieldAttr("int", FALSE, None, None, None)
            [] OTHER -> OptionsAttr({"db_namespace"})],
      [x \in {"id", "name", "_superclasses"} |->
          CASE x = "id" -> FieldAttr("int", TRUE, None, None, None)
            [] x = "name" -> FieldAttr("string", FALSE, "A", "n", "_id")
            [] OTHER -> PlainAttr],
      [x \in {"id", "age"} |->
          CASE x = "id" -> FieldAttr("string", FALSE, None, None, None)
            [] OTHER -> PlainAttr],
      [x \in {"name", "Options"} |->
          CASE x = "name" -> FieldAttr("string", FALSE, None, None, None)
            [] OTHER -> OptionsAttr({"bogus"})] }

OptionNames == {"db_namespace", "private_fields", "public_fields"}

FieldCtors == {"uuid"}

FieldLists == { <<"id">>, <<"age", "id">>, <<"name">> }

-----------------------------------------------------------------------------
(* Classes *)

Model == 1

ModelClass ==
    [name |-> 1, base |-> 0, attrs |-> EmptyDict, _fields |-> EmptyDict,
     _options |-> {}, _model_name |-> 1, body |-> EmptyDict, origin |-> "class"]

RECURSIVE ClassAttr(_, _, _)
ClassAttr(ks, c, name) ==
    IF c = 0 THEN [t |-> "absent", f |-> 0, names |-> {}]
    ELSE IF name \in DOMAIN ks[c].attrs THEN ks[c].attrs[name]
    ELSE ClassAttr(ks, ks[c].base, name)

HasClassAttr(ks, c, name) == ClassAttr(ks, c, name).t # "absent"

RECURSIVE IsSubclass(_, _, _)
IsSubclass(ks, c, d) ==
    IF c = 0 THEN FALSE
    ELSE IF c = d THEN TRUE
    ELSE IsSubclass(ks, ks[c].base, d)

FieldNames(body) == SelectSeq(Keys(body), LAMBDA n : body[n].t = "field")

IndexOf(seq, x) == CHOOSE i \in 1..Len(seq) : seq[i] = x

BodyFields(body) ==
    [i \in 1..Len(FieldNames(body)) |->
        LET a == body[FieldNames(body)[i]]
        IN  NewField(a.kind, a.required, a.default, a.minimized, a.uniq)]

BodyAttrs(body, n0) ==
    [n \in DOMAIN body |->
        [t |-> body[n].t,
         f |-> IF body[n].t = "field" THEN n0 + IndexOf(FieldNames(body), n) ELSE 0,
         names |-> body[n].names]]

_parse_options_config(attrs) ==
    IF "Options" \in DOMAIN attrs THEN attrs["Options"].names ELSE {}

OptionsAccepted(attrs) == _parse_options_config(attrs) \subseteq OptionNames

(* Mutant: an inherited field wins over a field of the class body *)
_extract_fields_mut(ks, bases, attrs) ==
    LET inherited == IF bases = 0 THEN EmptyDict ELSE ks[bases]._fields
        own == {n \in DOMAIN attrs : attrs[n].t = "field"}
    IN  Update([n \in own |-> attrs[n].f], inherited)

_extract_fields(ks, bases, attrs) ==
    LET inherited == IF bases = 0 THEN EmptyDict ELSE ks[bases]._fields
        own == {n \in DOMAIN attrs : attrs[n].t = "field"}
    IN  Update(inherited, [n \in own |-> attrs[n].f])

extract_names(fl, attrs) ==
    [i \in 1..Len(fl) |->
        IF \E n \in DOMAIN attrs : attrs[n].t = "field" /\ attrs[n].f = i
        THEN [fl[i] EXCEPT !.field_name =
                 CHOOSE n \in DOMAIN attrs : attrs[n].t = "field" /\ attrs[n].f = i]
        ELSE fl[i]]

AttachOwner(fl, fields, klass) ==
    [i \in 1..Len(fl) |->
        IF \E n \in DOMAIN fields : fields[n] = i
        THEN [fl[i] EXCEPT !.owner_model = klass]
        ELSE fl[i]]

MetaclassKlass(ks, name, bases, attrs) ==
    [name |-> name, base |-> bases, attrs |-> Del(attrs, "Options"),
     _fields |-> _extract_fields(ks, bases, attrs),
     _options |-> _parse_options_config(attrs), _model_name |-> name,
     body |-> attrs, origin |-> "class"]

MetaclassFlds(ks, fl, bases, attrs) ==
    AttachOwner(extract_names(fl, attrs), _extract_fields(ks, bases, attrs), Len(ks) + 1)

-----------------------------------------------------------------------------
(* Initial state: the module has been imported, so Model exists *)

NoRet == [op |-> "import"]

Init ==
    /\ klasses = <<ModelClass>>
    /\ flds = <<>>
    /\ declared = <<>>
    /\ defined = <<EmptyDict>>
    /\ insts = <<>>
    /\ nsets = 0
    /\ values = EmptyDict
    /\ ret = NoRet

-----------------------------------------------------------------------------
(* class <name>(<base>): <body> *)

DefineClass(maxc) ==
    /\ Len(klasses) <= maxc
    /\ \E base \in 1..Len(klasses), body \in Bodies :
        LET fl0 == flds \o BodyFields(body)
            attrs == BodyAttrs(body, Len(flds))
            k == Len(klasses) + 1
        IN  IF ~OptionsAccepted(attrs)
            THEN /\ ret' = [op |-> "class", exc |-> "TypeError", k |-> 0]
                 /\ UNCHANGED <<klasses, flds, declared, defined, insts, nsets, values>>
            ELSE /\ klasses' = Append(klasses, MetaclassKlass(klasses, k, base, attrs))
                 /\ flds' = MetaclassFlds(klasses, fl0, base, attrs)
                 /\ declared' = declared \o
                        [i \in 1..Len(FieldNames(body)) |->
                            [by |-> k, as |-> extract_names(fl0, attrs)[Len(flds) + i]]]
                 /\ defined' = Append(defined, _extract_fields(klasses, base, attrs))
                 /\ ret' = [op |-> "class", exc |-> "none", k |-> k,
                            base |-> base, body |-> body]
                 /\ UNCHANGED <<insts, nsets, values>>

-----------------------------------------------------------------------------
(* swap_field(klass, new_field, fields) *)

RECURSIVE SwapLoop(_, _, _, _, _)
SwapLoop(fields, n0, new_fields, i, fs) ==
    IF i > Len(fs) THEN fields
    ELSE SwapLoop(Put(fields, fs[i], n0 + i), n0, new_fields, i + 1, fs)

SwapNewFields(new_field, fs, interned) ==
    [i \in 1..Len(fs) |->
        IF fs[i] = "id" /\ interned
        THEN NewField(new_field, FALSE, None, None, "_id")
        ELSE NewField(new_field, FALSE, None, None, None)]

swap_field(maxc) ==
    /\ Len(klasses) <= maxc
    /\ \E klass \in 1..Len(klasses), new_field \in FieldCtors,
          fs \in FieldLists, interned \in BOOLEAN :
        IF ~HasClassAttr(klasses, klass, "_superclasses")
        THEN /\ ret' = [op |-> "swap", exc |-> "AttributeError", k |-> 0, klass |-> klass]
             /\ UNCHANGED <<klasses, flds, declared, defined, insts, nsets, values>>
        ELSE
        LET k == Len(klasses) + 1
            made == MetaclassKlass(klasses, klasses[klass].name, klass, EmptyDict)
            fl1 == MetaclassFlds(klasses, flds, klass, EmptyDict)
            news == SwapNewFields(new_field, fs, interned)
            swapped == SwapLoop(made._fields, Len(flds), news, 1, fs)
        IN  /\ flds' = fl1 \o news
            /\ declared' = declared \o [i \in 1..Len(fs) |-> [by |-> 0, as |-> news[i]]]
            /\ defined' = Append(defined, swapped)
            /\ UNCHANGED <<insts, nsets, values>>
            /\ IF "id" \in DOMAIN swapped
               THEN /\ klasses' = Append(klasses,
                          [made EXCEPT !._fields = swapped, !.origin = "swap",
                              !.attrs = Put(made.attrs, "id",
                                  [t |-> "field", f |-> swapped["id"], names |-> {}])])
                    /\ ret' = [op |-> "swap", exc |-> "none", k |-> k,
                               klass |-> klass, fields |-> fs, was |-> klasses[klass]._fields,
                               owners |-> [n \in DOMAIN klasses[klass]._fields |->
                                             flds[klasses[klass]._fields[n]].owner_model]]
               ELSE /\ klasses' = Append(klasses, [made EXCEPT !._fields = swapped, !.origin = "swap"])
                    /\ ret' = [op |-> "swap", exc |-> "KeyError", k |-> 0, klass |-> klass]

NextClass == DefineClass(MaxClasses) \/ swap_field(MaxClasses)

SpecClass == Init /\ [][NextClass]_vars

-----------------------------------------------------------------------------
(* Instances: attribute access *)

AttributeError == "<AttributeError>"

KeyError == "<KeyError>"

FieldGet(f, inst) ==
    IF Get(inst._data, f.field_name) = None THEN f.default
    ELSE inst._data[f.field_name]

getattr(ks, fl, inst, name) ==
    LET ca == ClassAttr(ks, inst.cls, name)
    IN  IF ca.t = "field" THEN FieldGet(fl[ca.f], inst)
        ELSE IF name \in DOMAIN inst.dict THEN inst.dict[name]
        ELSE IF ca.t = "plain" THEN "7"
        ELSE AttributeError

setattr(ks, fl, inst, name, value) ==
    LET ca == ClassAttr(ks, inst.cls, name)
    IN  IF ca.t = "field"
        THEN [inst EXCEPT !._data = Put(@, fl[ca.f].field_name, value)]
        ELSE [inst EXCEPT !.dict = Put(@, name, value)]

hasattr(ks, fl, inst, name) == getattr(ks, fl, inst, name) # AttributeError

-----------------------------------------------------------------------------
(* BaseModel.__init__ with keyword values *)

KwargSets ==
    { EmptyDict,
      [x \in {"name", "age", "foo"} |-> "A"],
      [x \in {"id", "n"} |-> IF x = "id" THEN "7" ELSE "A"],
      [x \in {"name", "age"} |-> IF x = "name" THEN "" ELSE "A"] }

(* Mutant: the constructor assigns no defaults *)
InitDefaults_mut(ks, fl, inst, names, i) == inst

RECURSIVE InitDefaults(_, _, _, _, _)
InitDefaults(ks, fl, inst, names, i) ==
    IF i > Len(names) THEN inst
    ELSE LET got == getattr(ks, fl, inst, names[i])
             value == IF got = AttributeError THEN None ELSE got
         IN  InitDefaults(ks, fl, setattr(ks, fl, inst, names[i], value), names, i + 1)

minimized_field_map(fl, fields) ==
    LET mins == {fl[fields[n]].minimized_field_name : n \in DOMAIN fields} \ {None, ""}
    IN  [m \in mins |->
            fl[fields[CHOOSE n \in DOMAIN fields :
                         /\ fl[fields[n]].minimized_field_name = m
                         /\ \A n2 \in DOMAIN fields :
                               fl[fields[n2]].minimized_field_name = m
                                  => IndexOf(DictOrder, n2) <= IndexOf(DictOrder, n)]].uniq_field]

RECURSIVE InitValues(_, _, _, _, _, _, _)
InitValues(ks, fl, inst, mmap, kwargs, names, i) ==
    IF i > Len(names) THEN [exc |-> "none", inst |-> inst]
    ELSE LET set1 == setattr(ks, fl, inst, names[i], kwargs[names[i]])
         IN  IF names[i] \in DOMAIN mmap
             THEN IF mmap[names[i]] = None
                  THEN [exc |-> "TypeError", inst |-> set1]
                  ELSE InitValues(ks, fl,
                          setattr(ks, fl, set1, mmap[names[i]], kwargs[names[i]]),
                          mmap, kwargs, names, i + 1)
             ELSE InitValues(ks, fl, set1, mmap, kwargs, names, i + 1)

BaseModelInit(ks, fl, c, kwargs) ==
    LET blank == [cls |-> c, _data |-> EmptyDict, dict |-> EmptyDict, kw |-> kwargs]
        fields == ks[c]._fields
        withDefaults == InitDefaults(ks, fl, blank, Keys(fields), 1)
    IN  InitValues(ks, fl, withDefaults, minimized_field_map(fl, fields),
                   kwargs, Keys(kwargs), 1)

__init__(maxi) ==
    /\ Len(insts) < maxi
    /\ \E c \in 1..Len(klasses), kwargs \in KwargSets :
        LET r == BaseModelInit(klasses, flds, c, kwargs)
        IN  /\ IF r.exc = "none"
               THEN insts' = Append(insts, r.inst)
               ELSE insts' = insts
            /\ ret' = [op |-> "init", exc |-> r.exc, cls |-> c, kwargs |-> kwargs,
                       i |-> IF r.exc = "none" THEN Len(insts) + 1 ELSE 0]
            /\ UNCHANGED <<klasses, flds, declared, defined, nsets, values>>

-----------------------------------------------------------------------------
(* BaseModel.validate(validate_all) *)

(* Mutant: the empty string is validated like any other value *)
RECURSIVE ValidateLoop_mut(_, _, _, _, _, _, _, _)
ValidateLoop_mut(ks, fl, inst, validate_all, names, i, errs, examined) ==
    IF i > Len(names)
    THEN [exc |-> IF errs # <<>> THEN "ModelException" ELSE "none",
          errs |-> errs, examined |-> examined]
    ELSE LET f == ks[inst.cls]._fields[names[i]]
             value == getattr(ks, fl, inst, names[i])
             checked == value # None
             err == IF checked
                    THEN IF TypeValid(fl[f].kind, value) THEN "none" ELSE "Invalid value"
                    ELSE IF fl[f].required THEN "Required field missing" ELSE "none"
             errs1 == IF err = "none" THEN errs
                      ELSE Append(errs, [name |-> names[i], field |-> f, msg |-> err,
                                         field_name |-> fl[f].field_name, value |-> value])
             examined1 == IF checked THEN Append(examined, names[i]) ELSE examined
         IN  IF err # "none" /\ ~validate_all
             THEN [exc |-> "TypeException", errs |-> errs1, examined |-> examined1]
             ELSE ValidateLoop_mut(ks, fl, inst, validate_all, names, i + 1, errs1, examined1)

RECURSIVE ValidateLoop(_, _, _, _, _, _, _, _)
ValidateLoop(ks, fl, inst, validate_all, names, i, errs, examined) ==
    IF i > Len(names)
    THEN [exc |-> IF errs # <<>> THEN "ModelException" ELSE "none",
          errs |-> errs, examined |-> examined]
    ELSE LET f == ks[inst.cls]._fields[names[i]]
             value == getattr(ks, fl, inst, names[i])
             checked == value # None /\ value # ""
             err == IF checked
                    THEN IF TypeValid(fl[f].kind, value) THEN "none" ELSE "Invalid value"
                    ELSE IF fl[f].required THEN "Required field missing" ELSE "none"
             errs1 == IF err = "none" THEN errs
                      ELSE Append(errs, [name |-> names[i], field |-> f, msg |-> err,
                                         field_name |-> fl[f].field_name, value |-> value])
             examined1 == IF checked THEN Append(examined, names[i]) ELSE examined
         IN  IF err # "none" /\ ~validate_all
             THEN [exc |-> "TypeException", errs |-> errs1, examined |-> examined1]
             ELSE ValidateLoop(ks, fl, inst, validate_all, names, i + 1, errs1, examined1)

validate ==
    \E i \in 1..Len(insts), validate_all \in BOOLEAN :
        LET names == Keys(klasses[insts[i].cls]._fields)
            r == IF \E n \in 1..Len(names) :
                       getattr(klasses, flds, insts[i], names[n]) = AttributeError
                 THEN [exc |-> "AttributeError", errs |-> <<>>, examined |-> <<>>]
                 ELSE ValidateLoop(klasses, flds, insts[i], validate_all, names, 1, <<>>, <<>>)
        IN  /\ ret' = [op |-> "validate", i |-> i, validate_all |-> validate_all,
                       exc |-> r.exc, errs |-> r.errs, examined |-> r.examined,
                       model_name |-> klasses[insts[i].cls]._model_name,
                       result |-> r.exc = "none"]
            /\ UNCHANGED <<klasses, flds, declared, defined, insts, nsets, values>>

-----------------------------------------------------------------------------
(* The dictionary interface *)

AttrNames == {"id", "name", "age", "foo", "n"}

SetValues == {None, "", "A", "7"}

__iter__ ==
    \E i \in 1..Len(insts) :
        /\ ret' = [op |-> "iter", i |-> i, result |-> Keys(klasses[insts[i].cls]._fields)]
        /\ UNCHANGED <<klasses, flds, declared, defined, insts, nsets, values>>

getitem_result(ks, fl, inst, name) ==
    IF name \in DOMAIN ks[inst.cls]._fields /\ getattr(ks, fl, inst, name) # AttributeError
    THEN getattr(ks, fl, inst, name)
    ELSE KeyError

__getitem__ ==
    \E i \in 1..Len(insts), name \in AttrNames :
        /\ ret' = [op |-> "getitem", i |-> i, name |-> name,
                   result |-> getitem_result(klasses, flds, insts[i], name)]
        /\ UNCHANGED <<klasses, flds, declared, defined, insts, nsets, values>>

__setitem__(maxs) ==
    /\ nsets < maxs
    /\ \E i \in 1..Len(insts), name \in AttrNames, value \in SetValues :
        /\ nsets' = nsets + 1
        /\ IF name \notin DOMAIN klasses[insts[i].cls]._fields
           THEN /\ ret' = [op |-> "setitem", i |-> i, name |-> name, exc |-> "KeyError"]
                /\ insts' = insts
           ELSE /\ ret' = [op |-> "setitem", i |-> i, name |-> name, exc |-> "none"]
                /\ insts' = [insts EXCEPT ![i] = setattr(klasses, flds, @, name, value)]
        /\ UNCHANGED <<klasses, flds, declared, defined, values>>

contains_result(ks, fl, inst, name) ==
    IF getattr(ks, fl, inst, name) = AttributeError THEN FALSE
    ELSE getattr(ks, fl, inst, name) # None

__contains__ ==
    \E i \in 1..Len(insts), name \in AttrNames :
        /\ ret' = [op |-> "contains", i |-> i, name |-> name,
                   result |-> contains_result(klasses, flds, insts[i], name)]
        /\ UNCHANGED <<klasses, flds, declared, defined, insts, nsets, values>>

__len__ ==
    \E i \in 1..Len(insts) :
        /\ ret' = [op |-> "len", i |-> i, result |-> Cardinality(DOMAIN insts[i]._data)]
        /\ UNCHANGED <<klasses, flds, declared, defined, insts, nsets, values>>

(* Mutant: "id" is dropped from the keys whether or not other has an id *)
eq_keys_mut(ks, fl, self, other) == Del(ks[self.cls]._fields, "id")

(* other = 0 stands for an object that is no model instance *)
eq_keys(ks, fl, self, other) ==
    IF hasattr(ks, fl, other, "id") THEN ks[self.cls]._fields
    ELSE Del(ks[self.cls]._fields, "id")

(* Mutant: the comparison answers for the last key alone *)
eq_loop_mut(ks, fl, self, other, keys, i) ==
    IF keys = <<>> THEN "True"
    ELSE LET mine == getitem_result(ks, fl, self, keys[Len(keys)])
             theirs == getitem_result(ks, fl, other, keys[Len(keys)])
         IN  IF mine = KeyError \/ theirs = KeyError THEN KeyError
             ELSE IF mine # theirs THEN "False"
             ELSE "True"

RECURSIVE eq_loop(_, _, _, _, _, _)
eq_loop(ks, fl, self, other, keys, i) ==
    IF i > Len(keys) THEN "True"
    ELSE LET mine == getitem_result(ks, fl, self, keys[i])
             theirs == getitem_result(ks, fl, other, keys[i])
         IN  IF mine = KeyError \/ theirs = KeyError THEN KeyError
             ELSE IF mine # theirs THEN "False"
             ELSE eq_loop(ks, fl, self, other, keys, i + 1)

__eq__ ==
    \E i \in 1..Len(insts), j \in 0..Len(insts) :
        IF j = 0 \/ ~IsSubclass(klasses, IF j = 0 THEN 0 ELSE insts[j].cls, insts[i].cls)
        THEN /\ ret' = [op |-> "eq", i |-> i, j |-> j, result |-> "False"]
             /\ UNCHANGED <<klasses, flds, declared, defined, insts, nsets, values>>
        ELSE LET keys == eq_keys(klasses, flds, insts[i], insts[j])
                 ks1 == [klasses EXCEPT ![insts[i].cls]._fields = keys]
             IN  /\ klasses' = ks1
                 /\ ret' = [op |-> "eq", i |-> i, j |-> j,
                            result |-> eq_loop(ks1, flds, insts[i], insts[j], Keys(keys), 1)]
                 /\ UNCHANGED <<flds, declared, defined, insts, nsets, values>>

Next ==
    \/ DefineClass(MaxModelClasses)
    \/ swap_field(MaxModelClasses)
    \/ __init__(MaxInstances)
    \/ validate
    \/ __iter__
    \/ __getitem__
    \/ __setitem__(MaxSets)
    \/ __contains__
    \/ __len__
    \/ __eq__

Spec == Init /\ [][Next]_vars

NextValidate ==
    \/ DefineClass(MaxValidateClasses)
    \/ __init__(MaxValidateInstances)
    \/ validate

SpecValidate == Init /\ [][NextValidate]_vars

NextEq ==
    \/ DefineClass(MaxEqClasses)
    \/ __init__(MaxEqInstances)
    \/ __eq__

SpecEq == Init /\ [][NextEq]_vars

-----------------------------------------------------------------------------
(* validate_class_fields and validate_class_partial *)

HelperKeys == {"id", "_id", "name", "foo"}

HelperValues == {None, " ", "A", "7"}

ValueMaps ==
    UNION { [ks -> HelperValues] : ks \in {s \in SUBSET HelperKeys : Cardinality(s) <= MaxKeys} }

full_inspector(k, v, vals) == v.required \/ k \in DOMAIN vals

partial_inspector(k, v, vals) == k \in DOMAIN vals

HelperKey(name, interned) == IF name = "id" /\ interned THEN "_id" ELSE name

RECURSIVE helper_loop(_, _, _, _, _, _, _, _, _, _)
helper_loop(fl, fields, full, vals, validate_all, interned, names, i, exceptions, class_fields) ==
    IF i > Len(names)
    THEN [exc |-> "none", exceptions |-> exceptions, class_fields |-> class_fields]
    ELSE LET k == HelperKey(names[i], interned)
             v == fl[fields[names[i]]]
             seen == class_fields \cup {k}
             inspect == IF full THEN full_inspector(k, v, vals)
                        ELSE partial_inspector(k, v, vals)
         IN  IF ~inspect
             THEN helper_loop(fl, fields, full, vals, validate_all, interned,
                              names, i + 1, exceptions, seen)
             ELSE IF k \notin DOMAIN vals
             THEN [exc |-> "KeyError", exceptions |-> exceptions, class_fields |-> seen]
             ELSE IF vals[k] = None \/ (IsStr(vals[k]) /\ Strip(vals[k]) = "")
                     \/ TypeValid(v.kind, vals[k])
             THEN helper_loop(fl, fields, full, vals, validate_all, interned,
                              names, i + 1, exceptions, seen)
             ELSE IF validate_all
             THEN helper_loop(fl, fields, full, vals, validate_all, interned,
                              names, i + 1, Append(exceptions, names[i]), seen)
             ELSE [exc |-> "TypeException", exceptions |-> <<names[i]>>, class_fields |-> seen]

remove_rogues(vals, class_fields) ==
    IF class_fields # {}
    THEN [k \in (DOMAIN vals) \cap class_fields |-> vals[k]]
    ELSE vals

_validate_helper(ks, fl, cls, full, vals, validate_all, interned) ==
    IF cls = 0
    THEN [exc |-> "ValueError", exceptions |-> <<>>, values |-> vals]
    ELSE LET r == helper_loop(fl, ks[cls]._fields, full, vals, validate_all, interned,
                              Keys(ks[cls]._fields), 1, <<>>, {})
         IN  [exc |-> r.exc, exceptions |-> r.exceptions,
              values |-> IF r.exc = "none" THEN remove_rogues(vals, r.class_fields)
                         ELSE vals]

SupplyValues ==
    \E vals \in ValueMaps :
        /\ values' = vals
        /\ ret' = [op |-> "values"]
        /\ UNCHANGED <<klasses, flds, declared, defined, insts, nsets>>

validate_class_fields ==
    \E cls \in 0..Len(klasses), validate_all \in BOOLEAN, interned \in BOOLEAN :
        LET r == _validate_helper(klasses, flds, cls, TRUE, values, validate_all, interned)
        IN  /\ values' = r.values
            /\ ret' = [op |-> "validate_class_fields", cls |-> cls, values0 |-> values,
                       validate_all |-> validate_all, exc |-> r.exc,
                       exceptions |-> r.exceptions]
            /\ UNCHANGED <<klasses, flds, declared, defined, insts, nsets>>

validate_class_partial ==
    \E cls \in 0..Len(klasses), validate_all \in BOOLEAN, interned \in BOOLEAN :
        LET r == _validate_helper(klasses, flds, cls, FALSE, values, validate_all, interned)
        IN  /\ values' = r.values
            /\ ret' = [op |-> "validate_class_partial", cls |-> cls, values0 |-> values,
                       validate_all |-> validate_all, exc |-> r.exc,
                       exceptions |-> r.exceptions]
            /\ UNCHANGED <<klasses, flds, declared, defined, insts, nsets>>

NextHelper ==
    \/ DefineClass(MaxHelperClasses)
    \/ SupplyValues
    \/ validate_class_fields
    \/ validate_class_partial

SpecHelper == Init /\ [][NextHelper]_vars

-----------------------------------------------------------------------------
(* Properties *)

Range(seq) == {seq[k] : k \in 1..Len(seq)}

SchemaOf(i) == klasses[insts[i].cls]._fields

ValueOf(i, n) == getattr(klasses, flds, insts[i], n)

(* A field is in error when its value is present and invalid, or when the    *)
(* value is missing or empty and the field is required.                      *)
InError(i, n) ==
    IF ValueOf(i, n) \in {None, ""}
    THEN flds[SchemaOf(i)[n]].required
    ELSE ~TypeValid(flds[SchemaOf(i)[n]].kind, ValueOf(i, n))

FieldsInError(i) == SelectSeq(Keys(SchemaOf(i)), LAMBDA n : InError(i, n))

ErrorNames(errs) == [k \in 1..Len(errs) |-> errs[k].name]

SameDeclaration(a, b) ==
    /\ a.kind = b.kind
    /\ a.required = b.required
    /\ a.default = b.default
    /\ a.minimized_field_name = b.minimized_field_name
    /\ a.uniq_field = b.uniq_field
    /\ a.field_name = b.field_name

(* C2: after any sequence of constructions, validate calls, mapping calls,  *)
(* equality comparisons and field swaps, every class's _fields has the      *)
(* field names and the field declarations it had when the class was         *)
(* defined.                                                                 *)
C2_SchemaWrittenOnce ==
    \A k \in 1..Len(klasses) :
        /\ klasses[k]._fields = defined[k]
        /\ \A n \in DOMAIN defined[k] :
              SameDeclaration(flds[defined[k][n]], declared[defined[k][n]].as)

W_C2_EqAfterSwap ==
    /\ ret.op = "eq"
    /\ ret.j # 0
    /\ klasses[insts[ret.i].cls].origin = "swap"
    /\ "id" \in DOMAIN defined[insts[ret.i].cls]

(* C3: for two instances of the same class, a == b is true exactly when     *)
(* every declared field (leaving out "id" when b has no "id" attribute) has *)
(* the same value in both; a == b is false when b is no instance of a's     *)
(* class; earlier comparisons do not change the result.                     *)
C3_Equality ==
    ret.op = "eq" =>
        IF ret.j = 0
        THEN ret.result = "False"
        ELSE LET a == insts[ret.i]
                 b == insts[ret.j]
                 compared == IF hasattr(klasses, flds, b, "id")
                             THEN DOMAIN defined[a.cls]
                             ELSE (DOMAIN defined[a.cls]) \ {"id"}
             IN  /\ ~IsSubclass(klasses, b.cls, a.cls) => ret.result = "False"
                 /\ a.cls = b.cls =>
                       ret.result =
                          IF \A n \in compared : ValueOf(ret.i, n) = ValueOf(ret.j, n)
                          THEN "True" ELSE "False"

W_C3_SameClassDiffer ==
    /\ ret.op = "eq"
    /\ ret.j # 0
    /\ ret.i # ret.j
    /\ insts[ret.i].cls = insts[ret.j].cls
    /\ Cardinality(DOMAIN defined[insts[ret.i].cls]) >= 2
    /\ ret.result = "False"

UndeclaredKeys(i) == (DOMAIN insts[i].kw) \ (DOMAIN SchemaOf(i))

(* C4: a constructor key that is no declared field name never makes         *)
(* construction raise, and afterwards iteration does not yield it, item get *)
(* and item set on it raise KeyError, and the membership test is false.     *)
CX_C4_UndeclaredKeyDropped ==
    /\ ret.op = "init" => ret.exc = "none"
    /\ ret.op = "setitem" /\ ret.name \in UndeclaredKeys(ret.i) => ret.exc = "KeyError"
    /\ \A i \in 1..Len(insts) : \A key \in UndeclaredKeys(i) :
          /\ key \notin Range(Keys(SchemaOf(i)))
          /\ getitem_result(klasses, flds, insts[i], key) = KeyError
          /\ ~contains_result(klasses, flds, insts[i], key)

IsHelperCall == ret.op \in {"validate_class_fields", "validate_class_partial"} /\ ret.cls # 0

Absent(n, vals) == n \notin DOMAIN vals /\ (n = "id" => "_id" \notin DOMAIN vals)

RequiredAbsent(cls, vals) ==
    {n \in DOMAIN klasses[cls]._fields :
        flds[klasses[cls]._fields[n]].required /\ Absent(n, vals)}

(* C5: validate_class_partial reports no error for a required field absent  *)
(* from the mapping; validate_class_fields reports it as a TypeException:   *)
(* raised in raise-first mode, in the returned list in aggregate mode.      *)
CX_C5_RequiredAbsentReported ==
    IsHelperCall =>
        \A n \in RequiredAbsent(ret.cls, ret.values0) :
            IF ret.op = "validate_class_partial"
            THEN ret.exc # "KeyError" /\ n \notin Range(ret.exceptions)
            ELSE IF ret.validate_all
            THEN ret.exc = "none" /\ n \in Range(ret.exceptions)
            ELSE ret.exc = "TypeException"

(* C6: when a helper finishes, every key of the mapping that corresponds to *)
(* no declared field has been deleted from the mapping, and every key of a  *)
(* declared field is still there with its value.                            *)
CX_C6_RoguesRemoved ==
    IsHelperCall /\ ret.exc = "none" =>
        LET fields == DOMAIN klasses[ret.cls]._fields
        IN  \A key \in DOMAIN ret.values0 :
              /\ key \notin fields /\ ~(key = "_id" /\ "id" \in fields)
                    => key \notin DOMAIN values
              /\ key \in fields
                    => key \in DOMAIN values /\ values[key] = ret.values0[key]

(* C7: swap_field returns a new subclass whose listed fields are fresh field *)
(* instances, and leaves the original class as it was: its _fields, its     *)
(* field declarations and their recorded owner.                             *)
CX_C7_SwapLeavesOriginal ==
    ret.op = "swap" /\ ret.exc = "none" =>
        /\ klasses[ret.k].base = ret.klass
        /\ \A n \in Range(ret.fields) :
              /\ n \in DOMAIN klasses[ret.k]._fields
              /\ declared[klasses[ret.k]._fields[n]].by = 0
              /\ klasses[ret.k]._fields[n] \notin Range([m \in 1..Len(Keys(ret.was)) |->
                                                           ret.was[Keys(ret.was)[m]]])
        /\ klasses[ret.klass]._fields = ret.was
        /\ \A n \in DOMAIN ret.was :
              /\ SameDeclaration(flds[ret.was[n]], declared[ret.was[n]].as)
              /\ flds[ret.was[n]].owner_model = ret.owners[n]

OwnFields(k) == {n \in DOMAIN klasses[k].body : klasses[k].body[n].t = "field"}

(* C8: the schema mapping of a class built by the class constructor is the  *)
(* union of its ancestors' schema mappings and the fields of its own body,  *)
(* a body field replacing an ancestor field of the same name; no other      *)
(* attribute of the body is in it.                                          *)
C8_SchemaIsUnion ==
    \A k \in 2..Len(klasses) :
        klasses[k].origin = "class" =>
            LET inherited == defined[klasses[k].base]
            IN  /\ DOMAIN klasses[k]._fields = (DOMAIN inherited) \cup OwnFields(k)
                /\ \A n \in OwnFields(k) : klasses[k]._fields[n] = klasses[k].body[n].f
                /\ \A n \in (DOMAIN inherited) \ OwnFields(k) :
                      klasses[k]._fields[n] = inherited[n]

W_C8_ShadowAndInherit ==
    \E k \in 2..Len(klasses) :
        /\ klasses[k].origin = "class"
        /\ OwnFields(k) \cap DOMAIN defined[klasses[k].base] # {}
        /\ (DOMAIN defined[klasses[k].base]) \ OwnFields(k) # {}
        /\ (DOMAIN klasses[k].body) \ OwnFields(k) # {}

(* C9: after construction with no arguments and any later item sets on      *)
(* declared names, item get on every declared field name returns a value    *)
(* (possibly None) and does not raise KeyError.                             *)
C9_DeclaredFieldsPresent ==
    /\ \A i \in 1..Len(insts) :
          insts[i].kw = EmptyDict =>
             \A n \in DOMAIN SchemaOf(i) :
                getitem_result(klasses, flds, insts[i], n) # KeyError
    /\ ret.op = "getitem" /\ insts[ret.i].kw = EmptyDict /\ ret.name \in DOMAIN SchemaOf(ret.i)
          => ret.result # KeyError

W_C9_GetAfterSet ==
    /\ ret.op = "getitem"
    /\ insts[ret.i].kw = EmptyDict
    /\ ret.name \in DOMAIN SchemaOf(ret.i)
    /\ ret.result = None
    /\ insts[ret.i]._data # EmptyDict
    /\ \E n \in DOMAIN SchemaOf(ret.i) : ValueOf(ret.i, n) = "7"

(* C10: the owner_model recorded on a field declaration is the class in     *)
(* whose body the field was declared, whatever classes are defined later.   *)
CX_C10_OwnerIsDeclarer ==
    \A f \in 1..Len(flds) :
        declared[f].by # 0 => flds[f].owner_model = declared[f].by

====
